---- MODULE Spec2Model ----
(***************************************************************************)
(* Model of the pikcio token ledger: pikciotokens/base.py (Balances,       *)
(* Allowances and the seven orchestration functions), the event registry   *)
(* of pikciotokens/events.py as far as the ledger calls it, and the token  *)
(* entry points of token_template.py that own balance_of, allowances and   *)
(* total_supply.                                                           *)
(*                                                                         *)
(* A Python dict is a function whose DOMAIN is the set of its keys.  A     *)
(* call that raises is a result record whose err field names the failure; *)
(* the mutations made before the raise stay in the record, as they stay in *)
(* the dict the caller passed.                                             *)
(***************************************************************************)
EXTENDS Integers, Sequences, FiniteSets, TLC

VARIABLES balance_of, allowances, total_supply, ev_globals, ev_names,
          ev_ids, sink, last, grant

vars == <<balance_of, allowances, total_supply, ev_globals, ev_names,
          ev_ids, sink, last, grant>>

ledger == <<balance_of, allowances, total_supply>>
registry == <<ev_globals, ev_names, ev_ids>>

----------------------------------------------------------------------------
(* Bounds of the model. *)

MaxAmt == 2
MaxAllow == 2
MaxSupply == 3
MaxSink == 2
InitSupply == 2
MaxEventId == 3

Accounts == {"A", "B", "D"}
Owners == {"A", "B"}
Delegates == {"B", "D"}
Amounts == (0 - 1) .. MaxAmt
Deltas == (0 - MaxAmt) .. MaxAmt

----------------------------------------------------------------------------
(* Python dicts. *)

EmptyDict == [k \in {} |-> 0]

DictGet(dct, key, default) == IF key \in DOMAIN dct THEN dct[key] ELSE default

DictSet(dct, key, value) ==
    [k \in DOMAIN dct \cup {key} |-> IF k = key THEN value ELSE dct[k]]

DictDel(dct, key) == [k \in DOMAIN dct \ {key} |-> dct[k]]

RECURSIVE SumOver(_, _)
SumOver(dct, keys) ==
    IF keys = {} THEN 0
    ELSE LET k == CHOOSE x \in keys : TRUE
         IN dct[k] + SumOver(dct, keys \ {k})

SumBal(bal) == SumOver(bal, DOMAIN bal)

Max(a, b) == IF a >= b THEN a ELSE b
Abs(a) == IF a >= 0 THEN a ELSE 0 - a

(* Truthiness of a Python int or dict. *)
FalsyInt(n) == n = 0
FalsyDict(dct) == DOMAIN dct = {}

NoRet == << >>
Ret(v) == <<v>>
NoLog == << >>

----------------------------------------------------------------------------
(* pikciotokens/events.py, as the ledger uses it. *)

Acct(a) == <<"account", a>>
Num(n) == <<"int", n>>

(* The closure with a schema test that lets missing fields through. *)
event_call_subset(ids, ev, npositional, kwargs) ==
    IF npositional > 0 THEN [err |-> "TypeError", log |-> NoLog]
    ELSE IF ev.id \notin ids THEN [err |-> "LookupError", log |-> NoLog]
    ELSE IF ~(DOMAIN kwargs \subseteq ev.args)
         THEN [err |-> "SchemaMismatch", log |-> NoLog]
    ELSE [err |-> "ok", log |-> <<[event |-> ev.name, fields |-> kwargs]>>]

(* The closure _event takes keyword arguments only: positional ones cannot
   be bound at all. *)
event_call(ids, ev, npositional, kwargs) ==
    IF npositional > 0 THEN [err |-> "TypeError", log |-> NoLog]
    ELSE IF ev.id \notin ids THEN [err |-> "LookupError", log |-> NoLog]
    ELSE IF DOMAIN kwargs # ev.args
         THEN [err |-> "SchemaMismatch", log |-> NoLog]
    ELSE [err |-> "ok", log |-> <<[event |-> ev.name, fields |-> kwargs]>>]

(* events.<name>(...): attribute lookup in the module, then the call. *)
events_attr_call(g, ids, name, npositional, kwargs) ==
    IF name \notin DOMAIN g THEN [err |-> "AttributeError", log |-> NoLog]
    ELSE event_call(ids, g[name], npositional, kwargs)

----------------------------------------------------------------------------
(* Balances (missing_means_zero = True). *)

(* The check that lets every amount through. *)
assert_positive_amount_off(amount) == "ok"

assert_positive_amount(amount) == IF amount < 0 THEN "InvalidAmount" ELSE "ok"

(* The policy that never deletes an entry. *)
delete_entry_if_falsy_int_keep(dct, key) == dct

delete_entry_if_falsy_int(dct, key) ==
    IF FalsyInt(dct[key]) THEN DictDel(dct, key) ELSE dct

delete_entry_if_falsy_dict(dct, key) ==
    IF FalsyDict(dct[key]) THEN DictDel(dct, key) ELSE dct

(* require with <= in place of <. *)
Balances_require_strict(bal, account, amount) ==
    IF DictGet(bal, account, 0) <= amount THEN "InsufficientFunds" ELSE "ok"

Balances_require(bal, account, amount) ==
    IF DictGet(bal, account, 0) < amount THEN "InsufficientFunds" ELSE "ok"

Balances_get(bal, account) == DictGet(bal, account, 0)

(* deposit that stores the amount instead of adding it to the balance. *)
Balances_deposit_overwrite(bal, account, amount) ==
    IF assert_positive_amount(amount) # "ok"
    THEN [bal |-> bal, err |-> assert_positive_amount(amount), ret |-> NoRet]
    ELSE LET nb == DictSet(bal, account, amount)
         IN [bal |-> nb, err |-> "ok", ret |-> Ret(nb[account])]

Balances_deposit(bal, account, amount) ==
    IF assert_positive_amount(amount) # "ok"
    THEN [bal |-> bal, err |-> assert_positive_amount(amount), ret |-> NoRet]
    ELSE LET nb == DictSet(bal, account, DictGet(bal, account, 0) + amount)
         IN [bal |-> nb, err |-> "ok", ret |-> Ret(nb[account])]

(* withdraw without its own amount check. *)
Balances_withdraw_unchecked(bal, account, amount) ==
    IF Balances_require(bal, account, amount) # "ok"
    THEN [bal |-> bal, err |-> Balances_require(bal, account, amount),
          ret |-> NoRet]
    ELSE IF account \notin DOMAIN bal
    THEN [bal |-> bal, err |-> "KeyError", ret |-> NoRet]
    ELSE LET nb == [bal EXCEPT ![account] = @ - amount]
         IN [bal |-> delete_entry_if_falsy_int(nb, account), err |-> "ok",
             ret |-> Ret(nb[account])]

Balances_withdraw(bal, account, amount) ==
    IF assert_positive_amount(amount) # "ok"
    THEN [bal |-> bal, err |-> assert_positive_amount(amount), ret |-> NoRet]
    ELSE IF Balances_require(bal, account, amount) # "ok"
    THEN [bal |-> bal, err |-> Balances_require(bal, account, amount),
          ret |-> NoRet]
    ELSE IF account \notin DOMAIN bal
    THEN [bal |-> bal, err |-> "KeyError", ret |-> NoRet]
    ELSE LET nb == [bal EXCEPT ![account] = @ - amount]
         IN [bal |-> delete_entry_if_falsy_int(nb, account), err |-> "ok",
             ret |-> Ret(nb[account])]

----------------------------------------------------------------------------
(* Allowances (missing_means_zero = True, zero_allowance_ok = False). *)

(* get_one never returns None under this policy, so "allowance is not None"
   always holds. *)
allow_transfer_zero_allowed(allowance, amount) == allowance >= amount

(* The default policy without the truthiness test. *)
allow_transfer_zero_not_allowed_lax(allowance, amount) == allowance >= amount

allow_transfer_zero_not_allowed(allowance, amount) ==
    ~FalsyInt(allowance) /\ allowance >= amount

Allowances_get_all(allow, account) == DictGet(allow, account, EmptyDict)

Allowances_get_one(allow, account, delegate) ==
    DictGet(Allowances_get_all(allow, account), delegate, 0)

Allowances_require(allow, account, delegate, amount) ==
    IF ~allow_transfer_zero_not_allowed(
            Allowances_get_one(allow, account, delegate), amount)
    THEN "InsufficientAllowance" ELSE "ok"

(* set that replaces the account's whole entry by the one delegate. *)
Allowances_set_wipe(allow, account, delegate, amount) ==
    IF assert_positive_amount(amount) # "ok"
    THEN [allow |-> allow, err |-> assert_positive_amount(amount)]
    ELSE IF account \in DOMAIN allow
    THEN [allow |-> [allow EXCEPT ![account] = [d \in {delegate} |-> amount]],
          err |-> "ok"]
    ELSE [allow |-> allow, err |-> "ok"]

(* get_all(account)[delegate] = amount: when the account has no entry,
   get_all hands out a fresh empty dict, the assignment goes into that dict
   and the ledger keeps nothing. *)
Allowances_set(allow, account, delegate, amount) ==
    IF assert_positive_amount(amount) # "ok"
    THEN [allow |-> allow, err |-> assert_positive_amount(amount)]
    ELSE IF account \in DOMAIN allow
    THEN [allow |-> [allow EXCEPT ![account] = DictSet(@, delegate, amount)],
          err |-> "ok"]
    ELSE [allow |-> allow, err |-> "ok"]

(* The cleanup that stops after the delegate's entry. *)
post_decrease_remove_delegate_only(allow, account, delegate) ==
    IF account \notin DOMAIN allow
    THEN [allow |-> allow, err |-> "KeyError"]
    ELSE IF delegate \notin DOMAIN allow[account]
    THEN [allow |-> allow, err |-> "KeyError"]
    ELSE [allow |-> [allow EXCEPT
                       ![account] = delete_entry_if_falsy_int(@, delegate)],
          err |-> "ok"]

post_decrease_remove_entries_if_falsy(allow, account, delegate) ==
    IF account \notin DOMAIN allow
    THEN [allow |-> allow, err |-> "KeyError"]
    ELSE IF delegate \notin DOMAIN allow[account]
    THEN [allow |-> allow, err |-> "KeyError"]
    ELSE LET inner == [allow EXCEPT
                         ![account] = delete_entry_if_falsy_int(@, delegate)]
         IN [allow |-> delete_entry_if_falsy_dict(inner, account),
             err |-> "ok"]

Allowances_decrease(allow, account, delegate, amount) ==
    IF assert_positive_amount(amount) # "ok"
    THEN [allow |-> allow, err |-> assert_positive_amount(amount),
          ret |-> NoRet]
    ELSE LET new_allowance ==
                 Max(0, Allowances_get_one(allow, account, delegate) - amount)
             s == Allowances_set(allow, account, delegate, new_allowance)
             p == post_decrease_remove_entries_if_falsy(s.allow, account,
                                                        delegate)
         IN IF s.err # "ok"
            THEN [allow |-> s.allow, err |-> s.err, ret |-> NoRet]
            ELSE IF p.err # "ok"
            THEN [allow |-> p.allow, err |-> p.err, ret |-> NoRet]
            ELSE [allow |-> p.allow, err |-> "ok", ret |-> Ret(new_allowance)]

Allowances_increase(allow, account, delegate, amount) ==
    IF assert_positive_amount(amount) # "ok"
    THEN [allow |-> allow, err |-> assert_positive_amount(amount),
          ret |-> NoRet]
    ELSE LET new_allowance ==
                 Allowances_get_one(allow, account, delegate) + amount
             s == Allowances_set(allow, account, delegate, new_allowance)
         IN IF s.err # "ok"
            THEN [allow |-> s.allow, err |-> s.err, ret |-> NoRet]
            ELSE [allow |-> s.allow, err |-> "ok", ret |-> Ret(new_allowance)]

Allowances_update(allow, account, delegate, amount) ==
    IF amount >= 0
    THEN Allowances_increase(allow, account, delegate, Abs(amount))
    ELSE Allowances_decrease(allow, account, delegate, Abs(amount))

(* Allowances built with an explicit missing_means_zero. __init__ sets
   _default_allowance when the flag is true and _default_balance when it is
   false; get_one reads self._default_allowance as the default argument of
   dict.get, so the read happens whether or not the entry exists. *)
None == "None"

Allowances_attributes(missing_means_zero) ==
    IF missing_means_zero
    THEN {"allowances", "_default_allowance", "_post_decrease",
          "_allow_transfer"}
    ELSE {"allowances", "_default_balance", "_post_decrease",
          "_allow_transfer"}

Allowances_get_one_policy(allow, missing_means_zero, account, delegate) ==
    IF "_default_allowance" \notin Allowances_attributes(missing_means_zero)
    THEN [err |-> "AttributeError", ret |-> NoRet]
    ELSE [err |-> "ok",
          ret |-> Ret(Allowances_get_one(allow, account, delegate))]

Allowances_require_policy(allow, missing_means_zero, account, delegate, amount) ==
    LET g == Allowances_get_one_policy(allow, missing_means_zero, account,
                                       delegate)
    IN IF g.err # "ok" THEN g.err
       ELSE IF ~allow_transfer_zero_not_allowed(g.ret[1], amount)
       THEN "InsufficientAllowance" ELSE "ok"

(* decrease: the amount test, then get_one, then set and _post_decrease,
   which is the cleanup when the flag is true and a no-op when it is
   false. *)
Allowances_decrease_policy(allow, missing_means_zero, account, delegate, amount) ==
    LET g == Allowances_get_one_policy(allow, missing_means_zero, account,
                                       delegate)
        new_allowance == Max(0, g.ret[1] - amount)
        s == Allowances_set(allow, account, delegate, new_allowance)
    IN IF assert_positive_amount(amount) # "ok"
       THEN [allow |-> allow, err |-> assert_positive_amount(amount),
             ret |-> NoRet]
       ELSE IF g.err # "ok"
       THEN [allow |-> allow, err |-> g.err, ret |-> NoRet]
       ELSE IF missing_means_zero
       THEN Allowances_decrease(allow, account, delegate, amount)
       ELSE [allow |-> s.allow, err |-> s.err,
             ret |-> IF s.err = "ok" THEN Ret(new_allowance) ELSE NoRet]

(* __exit__ that debits the allowance without looking at exc_type. *)
Allowances_transaction_always_debit(allow, account, delegate, amount, body) ==
    IF Allowances_require(allow, account, delegate, amount) # "ok"
    THEN [bal |-> body.before, allow |-> allow,
          err |-> Allowances_require(allow, account, delegate, amount),
          ret |-> NoRet, log |-> NoLog]
    ELSE LET d == Allowances_decrease(allow, account, delegate, amount)
         IN IF body.err # "ok"
            THEN [bal |-> body.bal, allow |-> d.allow, err |-> body.err,
                  ret |-> NoRet, log |-> body.log]
            ELSE IF d.err # "ok"
            THEN [bal |-> body.bal, allow |-> d.allow, err |-> d.err,
                  ret |-> NoRet, log |-> body.log]
            ELSE [bal |-> body.bal, allow |-> d.allow, err |-> "ok",
                  ret |-> body.ret, log |-> body.log]

(* with allowances.transaction(account, delegate, amount): <body>
   body is the result of the wrapped call on the balances; it runs only
   when __enter__ did not raise, and __exit__ debits the allowance only
   when the body did not raise. *)
Allowances_transaction(allow, account, delegate, amount, body) ==
    IF Allowances_require(allow, account, delegate, amount) # "ok"
    THEN [bal |-> body.before, allow |-> allow,
          err |-> Allowances_require(allow, account, delegate, amount),
          ret |-> NoRet, log |-> NoLog]
    ELSE IF body.err # "ok"
    THEN [bal |-> body.bal, allow |-> allow, err |-> body.err,
          ret |-> NoRet, log |-> body.log]
    ELSE LET d == Allowances_decrease(allow, account, delegate, amount)
         IN IF d.err # "ok"
            THEN [bal |-> body.bal, allow |-> d.allow, err |-> d.err,
                  ret |-> NoRet, log |-> body.log]
            ELSE [bal |-> body.bal, allow |-> d.allow, err |-> "ok",
                  ret |-> body.ret, log |-> body.log]

----------------------------------------------------------------------------
(* The orchestration functions of base.py.  g and ids are the registry of
   events.py at the time of the call. *)

transfer(bal, g, ids, sender, to_address, amount) ==
    LET w == Balances_withdraw(bal, sender, amount)
        d == Balances_deposit(w.bal, to_address, amount)
        e == events_attr_call(g, ids, "transfer", 3, EmptyDict)
    IN IF w.err # "ok"
       THEN [before |-> bal, bal |-> w.bal, err |-> w.err, ret |-> NoRet,
             log |-> NoLog]
       ELSE IF d.err # "ok"
       THEN [before |-> bal, bal |-> d.bal, err |-> d.err, ret |-> NoRet,
             log |-> NoLog]
       ELSE IF e.err # "ok"
       THEN [before |-> bal, bal |-> d.bal, err |-> e.err, ret |-> NoRet,
             log |-> NoLog]
       ELSE [before |-> bal, bal |-> d.bal, err |-> "ok", ret |-> Ret(1),
             log |-> e.log]

mint(bal, g, ids, supply, account, amount) ==
    LET d == Balances_deposit(bal, account, amount)
        e == events_attr_call(g, ids, "mint", 4, EmptyDict)
    IN IF d.err # "ok"
       THEN [before |-> bal, bal |-> d.bal, err |-> d.err, ret |-> NoRet,
             log |-> NoLog]
       ELSE IF e.err # "ok"
       THEN [before |-> bal, bal |-> d.bal, err |-> e.err, ret |-> NoRet,
             log |-> NoLog]
       ELSE [before |-> bal, bal |-> d.bal, err |-> "ok",
             ret |-> Ret(supply + amount), log |-> e.log]

burn(bal, g, ids, supply, account, amount) ==
    LET w == Balances_withdraw(bal, account, amount)
        e == events_attr_call(g, ids, "burn", 4, EmptyDict)
    IN IF w.err # "ok"
       THEN [before |-> bal, bal |-> w.bal, err |-> w.err, ret |-> NoRet,
             log |-> NoLog]
       ELSE IF e.err # "ok"
       THEN [before |-> bal, bal |-> w.bal, err |-> e.err, ret |-> NoRet,
             log |-> NoLog]
       ELSE [before |-> bal, bal |-> w.bal, err |-> "ok",
             ret |-> Ret(supply - amount), log |-> e.log]

approve(allow, account, delegate, amount) ==
    LET s == Allowances_set(allow, account, delegate, amount)
    IN IF s.err # "ok"
       THEN [allow |-> s.allow, err |-> s.err, ret |-> NoRet]
       ELSE [allow |-> s.allow, err |-> "ok", ret |-> Ret(1)]

update_approve(allow, account, delegate, delta_amount) ==
    Allowances_update(allow, account, delegate, delta_amount)

transfer_from(bal, allow, g, ids, delegate, from_address, to_address, amount) ==
    Allowances_transaction(allow, from_address, delegate, amount,
        transfer(bal, g, ids, from_address, to_address, amount))

burn_from(bal, allow, g, ids, supply, delegate, from_address, amount) ==
    Allowances_transaction(allow, from_address, delegate, amount,
        burn(bal, g, ids, supply, from_address, amount))

----------------------------------------------------------------------------
(* token_template.py: the module owns balance_of, allowances and
   total_supply, keeps the three events it registered at import, and calls
   base.py with context.sender as the caller. *)

transferred ==
    [name |-> "transfer", id |-> 1, args |-> {"sender", "recipient", "amount"}]
burnt ==
    [name |-> "burn", id |-> 2, args |-> {"sender", "amount", "new_supply"}]
minted ==
    [name |-> "mint", id |-> 3, args |-> {"sender", "amount", "new_supply"}]

token_transfer(bal, supply, g, ids, sender, to_address, amount) ==
    LET r == transfer(bal, g, ids, sender, to_address, amount)
        e == event_call(ids, transferred, 0,
                        [sender |-> Acct(sender), recipient |-> Num(supply),
                         amount |-> Num(amount)])
    IN IF r.err # "ok"
       THEN [bal |-> r.bal, err |-> r.err, ret |-> NoRet, log |-> r.log]
       ELSE IF e.err # "ok"
       THEN [bal |-> r.bal, err |-> e.err, ret |-> NoRet, log |-> r.log]
       ELSE [bal |-> r.bal, err |-> "ok", ret |-> Ret(1),
             log |-> r.log \o e.log]

token_transfer_from(bal, allow, supply, g, ids, sender, from_address, to_address, amount) ==
    LET r == transfer_from(bal, allow, g, ids, sender, from_address,
                           to_address, amount)
        e == event_call(ids, transferred, 0,
                        [sender |-> Acct(from_address),
                         recipient |-> Num(supply), amount |-> Num(amount)])
    IN IF r.err # "ok"
       THEN [bal |-> r.bal, allow |-> r.allow, err |-> r.err, ret |-> NoRet,
             log |-> r.log]
       ELSE IF e.err # "ok"
       THEN [bal |-> r.bal, allow |-> r.allow, err |-> e.err, ret |-> NoRet,
             log |-> r.log]
       ELSE [bal |-> r.bal, allow |-> r.allow, err |-> "ok", ret |-> Ret(1),
             log |-> r.log \o e.log]

(* The tail shared by mint, burn and burn_from: the event is called only
   when the supply changed, and total_supply is assigned last. *)
supply_update(r, supply, ids, ev, sender, amount) ==
    LET new_supply == r.ret[1]
        e == event_call(ids, ev, 0,
                        [sender |-> Acct(sender), amount |-> Num(amount),
                         new_supply |-> Num(new_supply)])
    IN IF r.err # "ok"
       THEN [supply |-> supply, err |-> r.err, ret |-> NoRet, log |-> r.log]
       ELSE IF new_supply # supply /\ e.err # "ok"
       THEN [supply |-> supply, err |-> e.err, ret |-> NoRet, log |-> r.log]
       ELSE [supply |-> new_supply, err |-> "ok", ret |-> Ret(new_supply),
             log |-> IF new_supply # supply THEN r.log \o e.log ELSE r.log]

token_mint(bal, supply, g, ids, sender, amount) ==
    LET r == mint(bal, g, ids, supply, sender, amount)
        u == supply_update(r, supply, ids, minted, sender, amount)
    IN [bal |-> r.bal, supply |-> u.supply, err |-> u.err, ret |-> u.ret,
        log |-> u.log]

token_burn(bal, supply, g, ids, sender, amount) ==
    LET r == burn(bal, g, ids, supply, sender, amount)
        u == supply_update(r, supply, ids, burnt, sender, amount)
    IN [bal |-> r.bal, supply |-> u.supply, err |-> u.err, ret |-> u.ret,
        log |-> u.log]

token_burn_from(bal, allow, supply, g, ids, sender, from_address, amount) ==
    LET r == burn_from(bal, allow, g, ids, supply, sender, from_address,
                       amount)
        u == supply_update(r, supply, ids, burnt, sender, amount)
    IN [bal |-> r.bal, allow |-> r.allow, supply |-> u.supply, err |-> u.err,
        ret |-> u.ret, log |-> u.log]

----------------------------------------------------------------------------
(* State after import and init: the caller "A" holds the whole supply; the
   allowance mapping is the module's empty dict or one the host seeded. *)

AllowSeeds ==
    {EmptyDict, [a \in {"A"} |-> [d \in {"D"} |-> MaxAllow]]}

NoGrant == [given |-> 0 - 1, spent |-> 0]

Init ==
    /\ total_supply = InitSupply
    /\ balance_of = [a \in {"A"} |-> InitSupply]
    /\ allowances \in AllowSeeds
    /\ ev_globals = [n \in {"transfer", "burn", "mint"} |->
                       CASE n = "transfer" -> transferred
                         [] n = "burn" -> burnt
                         [] n = "mint" -> minted]
    /\ ev_names = {"transfer", "burn", "mint"}
    /\ ev_ids = {transferred.id, burnt.id, minted.id}
    /\ sink = << >>
    /\ last = [op |-> "init", outcome |-> "ok", ret |-> NoRet]
    /\ grant = NoGrant

Done(op, r) ==
    /\ Len(sink) + Len(r.log) <= MaxSink
    /\ sink' = sink \o r.log
    /\ last' = [op |-> op, outcome |-> r.err, ret |-> r.ret]

Call_transfer(sender, to_address, amount) ==
    LET r == token_transfer(balance_of, total_supply, ev_globals, ev_ids,
                            sender, to_address, amount)
    IN /\ Done("transfer", r)
       /\ balance_of' = r.bal
       /\ UNCHANGED <<allowances, total_supply, registry>>

Call_mint(sender, amount) ==
    LET r == token_mint(balance_of, total_supply, ev_globals, ev_ids,
                        sender, amount)
    IN /\ SumBal(balance_of) + amount <= MaxSupply
       /\ Done("mint", r)
       /\ balance_of' = r.bal
       /\ total_supply' = r.supply
       /\ UNCHANGED <<allowances, registry>>

Call_burn(sender, amount) ==
    LET r == token_burn(balance_of, total_supply, ev_globals, ev_ids,
                        sender, amount)
    IN /\ Done("burn", r)
       /\ balance_of' = r.bal
       /\ total_supply' = r.supply
       /\ UNCHANGED <<allowances, registry>>

Call_approve(sender, to_address, amount) ==
    LET r == approve(allowances, sender, to_address, amount)
    IN /\ last' = [op |-> "approve", outcome |-> r.err, ret |-> r.ret]
       /\ allowances' = r.allow
       /\ UNCHANGED <<balance_of, total_supply, registry, sink>>

Call_update_approve(sender, to_address, delta_amount) ==
    LET r == update_approve(allowances, sender, to_address, delta_amount)
    IN /\ Allowances_get_one(allowances, sender, to_address) + delta_amount
             <= MaxAllow
       /\ last' = [op |-> "update_approve", outcome |-> r.err, ret |-> r.ret]
       /\ allowances' = r.allow
       /\ UNCHANGED <<balance_of, total_supply, registry, sink>>

Call_transfer_from(sender, from_address, to_address, amount) ==
    LET r == token_transfer_from(balance_of, allowances, total_supply,
                                 ev_globals, ev_ids, sender, from_address,
                                 to_address, amount)
    IN /\ Done("transfer_from", r)
       /\ balance_of' = r.bal
       /\ allowances' = r.allow
       /\ UNCHANGED <<total_supply, registry>>

Call_burn_from(sender, from_address, amount) ==
    LET r == token_burn_from(balance_of, allowances, total_supply,
                             ev_globals, ev_ids, sender, from_address, amount)
    IN /\ Done("burn_from", r)
       /\ balance_of' = r.bal
       /\ allowances' = r.allow
       /\ total_supply' = r.supply
       /\ UNCHANGED registry

(* The entry points as the token exposes them. *)

T_transfer(sender, to_address, amount) ==
    Call_transfer(sender, to_address, amount) /\ UNCHANGED grant

T_mint(sender, amount) == Call_mint(sender, amount) /\ UNCHANGED grant

T_burn(sender, amount) == Call_burn(sender, amount) /\ UNCHANGED grant

T_approve(sender, to_address, amount) ==
    Call_approve(sender, to_address, amount) /\ UNCHANGED grant

T_update_approve(sender, to_address, delta_amount) ==
    Call_update_approve(sender, to_address, delta_amount) /\ UNCHANGED grant

T_transfer_from(sender, from_address, to_address, amount) ==
    Call_transfer_from(sender, from_address, to_address, amount)
    /\ UNCHANGED grant

T_burn_from(sender, from_address, amount) ==
    Call_burn_from(sender, from_address, amount) /\ UNCHANGED grant

Next ==
    \/ \E s \in Accounts, t \in Accounts, n \in Amounts : T_transfer(s, t, n)
    \/ \E s \in Accounts, n \in Amounts : T_mint(s, n)
    \/ \E s \in Accounts, n \in Amounts : T_burn(s, n)
    \/ \E s \in Owners, d \in Delegates, n \in Amounts : T_approve(s, d, n)
    \/ \E s \in Owners, d \in Delegates, n \in Deltas :
          T_update_approve(s, d, n)
    \/ \E d \in Delegates, f \in Owners, t \in Accounts, n \in Amounts :
          T_transfer_from(d, f, t, n)
    \/ \E d \in Delegates, f \in Owners, n \in Amounts : T_burn_from(d, f, n)

Spec == Init /\ [][Next]_vars

----------------------------------------------------------------------------
(* Delegated spending of "D" on "A", observed: grant.given is the amount of
   the last successful approve("A", "D", n), grant.spent what D's
   transfer_from and burn_from calls took out of A's balance since then. *)

Spend(bal_before, bal_after) ==
    IF grant.given < 0 THEN grant
    ELSE [grant EXCEPT !.spent = @ + Balances_get(bal_before, "A")
                                   - Balances_get(bal_after, "A")]

G_approve(amount) ==
    /\ Call_approve("A", "D", amount)
    /\ grant' = IF last'.outcome = "ok"
                THEN [given |-> amount, spent |-> 0] ELSE grant

G_transfer_from(to_address, amount) ==
    /\ Call_transfer_from("D", "A", to_address, amount)
    /\ grant' = Spend(balance_of, balance_of')

G_burn_from(amount) ==
    /\ Call_burn_from("D", "A", amount)
    /\ grant' = Spend(balance_of, balance_of')

NextDelegated ==
    \/ \E n \in Amounts : G_approve(n)
    \/ \E t \in Accounts, n \in Amounts : G_transfer_from(t, n)
    \/ \E n \in Amounts : G_burn_from(n)

SpecDelegated == Init /\ [][NextDelegated]_vars

----------------------------------------------------------------------------
(* The Balances methods called on the token's balance mapping, next to the
   two orchestration functions that withdraw. *)

B_deposit(account, amount) ==
    LET r == Balances_deposit(balance_of, account, amount)
    IN /\ SumBal(balance_of) + amount <= MaxSupply
       /\ balance_of' = r.bal
       /\ last' = [op |-> "deposit", outcome |-> r.err, ret |-> r.ret]
       /\ UNCHANGED <<allowances, total_supply, registry, sink, grant>>

B_withdraw(account, amount) ==
    LET r == Balances_withdraw(balance_of, account, amount)
    IN /\ balance_of' = r.bal
       /\ last' = [op |-> "withdraw", outcome |-> r.err, ret |-> r.ret]
       /\ UNCHANGED <<allowances, total_supply, registry, sink, grant>>

NextBalances ==
    \/ \E a \in Accounts, n \in Amounts : B_deposit(a, n)
    \/ \E a \in Accounts, n \in Amounts : B_withdraw(a, n)
    \/ \E s \in Accounts, t \in Accounts, n \in Amounts : T_transfer(s, t, n)
    \/ \E s \in Accounts, n \in Amounts : T_burn(s, n)

SpecBalances == Init /\ [][NextBalances]_vars

----------------------------------------------------------------------------
(* The Allowances methods called on an allowance mapping in which two
   accounts have granted allowances, next to the two orchestration functions
   that only write allowances. *)

AllowanceBooks ==
    {[a \in {"A"} |-> [d \in {"D"} |-> MaxAllow]],
     [a \in Owners |->
        IF a = "A" THEN [d \in Delegates |-> IF d = "D" THEN MaxAllow ELSE 1]
        ELSE [d \in {"D"} |-> 1]]}

InitAllowances ==
    /\ total_supply = InitSupply
    /\ balance_of = [a \in {"A"} |-> InitSupply]
    /\ allowances \in AllowanceBooks
    /\ ev_globals = [n \in {"transfer", "burn", "mint"} |->
                       CASE n = "transfer" -> transferred
                         [] n = "burn" -> burnt
                         [] n = "mint" -> minted]
    /\ ev_names = {"transfer", "burn", "mint"}
    /\ ev_ids = {transferred.id, burnt.id, minted.id}
    /\ sink = << >>
    /\ last = [op |-> "init", outcome |-> "ok", ret |-> NoRet]
    /\ grant = NoGrant

A_decrease(account, delegate, amount) ==
    LET r == Allowances_decrease(allowances, account, delegate, amount)
    IN /\ allowances' = r.allow
       /\ last' = [op |-> "decrease", outcome |-> r.err, ret |-> r.ret]
       /\ UNCHANGED <<balance_of, total_supply, registry, sink, grant>>

A_increase(account, delegate, amount) ==
    LET r == Allowances_increase(allowances, account, delegate, amount)
    IN /\ Allowances_get_one(allowances, account, delegate) + amount
             <= MaxAllow
       /\ allowances' = r.allow
       /\ last' = [op |-> "increase", outcome |-> r.err, ret |-> r.ret]
       /\ UNCHANGED <<balance_of, total_supply, registry, sink, grant>>

NextAllowances ==
    \/ \E a \in Owners, d \in Delegates, n \in Amounts : A_decrease(a, d, n)
    \/ \E a \in Owners, d \in Delegates, n \in Amounts : A_increase(a, d, n)
    \/ \E a \in Owners, d \in Delegates, n \in Amounts : T_approve(a, d, n)
    \/ \E a \in Owners, d \in Delegates, n \in Deltas :
         T_update_approve(a, d, n)

SpecAllowances == InitAllowances /\ [][NextAllowances]_vars

----------------------------------------------------------------------------
(* pikciotokens/events.py on its own: the module right after import, with
   register, unregister and calls of the events through the module
   attribute. Event names are ones that are not attributes of the module
   otherwise. *)

EventNames == {"ping", "pong"}
EventIds == 1 .. MaxEventId
Schemas == {{"sender"}, {"sender", "amount"}}
KeySets == {{}, {"sender"}, {"sender", "amount"}, {"sender", "amount", "memo"}}
Kwargs(keys) == [k \in keys |-> Num(0)]

(* id() of the objects that are still referenced: a new closure gets an id
   that none of them has. *)
LiveIds(g) == {g[n].id : n \in DOMAIN g}

registered_events(names) == names

(* is_registered(event) for a name: globals().get(name, None), then the id
   test; None has no registered id. *)
is_registered_name(g, ids, event_name) ==
    event_name \in DOMAIN g /\ g[event_name].id \in ids

is_registered(ids, event) == event.id \in ids

(* _registered_events_ids.remove raises KeyError when the id is missing;
   _registered_events.remove(event) is handed the callable, which the set of
   names never holds, so it raises KeyError whenever it is reached and
   del globals()[event_name] is not. *)
unregister(g, names, ids, event_name) ==
    IF event_name \notin DOMAIN g
    THEN [g |-> g, names |-> names, ids |-> ids, err |-> "ok"]
    ELSE IF g[event_name].id \notin ids
    THEN [g |-> g, names |-> names, ids |-> ids, err |-> "KeyError"]
    ELSE [g |-> g, names |-> names, ids |-> ids \ {g[event_name].id},
          err |-> "KeyError"]

(* unregister(event) for a callable: event.__name__ is "_event" for every
   closure that register returns. *)
unregister_callable(g, names, ids, event) ==
    unregister(g, names, ids, "_event")

(* register with the replacement done as the code does it. *)
register(g, names, ids, event_name, args, event_id) ==
    LET u == IF event_name \in names
             THEN unregister(g, names, ids, event_name)
             ELSE [g |-> g, names |-> names, ids |-> ids, err |-> "ok"]
        ev == [name |-> event_name, id |-> event_id, args |-> args]
    IN IF u.err # "ok"
       THEN [g |-> u.g, names |-> u.names, ids |-> u.ids, err |-> u.err,
             ret |-> NoRet]
       ELSE [g |-> DictSet(u.g, event_name, ev),
             names |-> u.names \cup {event_name},
             ids |-> u.ids \cup {event_id}, err |-> "ok",
             ret |-> Ret(event_id)]

InitEvents ==
    /\ total_supply = InitSupply
    /\ balance_of = [a \in {"A"} |-> InitSupply]
    /\ allowances = EmptyDict
    /\ ev_globals = EmptyDict
    /\ ev_names = {}
    /\ ev_ids = {}
    /\ sink = << >>
    /\ last = [op |-> "init", outcome |-> "ok", ret |-> NoRet]
    /\ grant = NoGrant

E_register(event_name, args, event_id) ==
    LET r == register(ev_globals, ev_names, ev_ids, event_name, args,
                      event_id)
    IN /\ event_id \notin LiveIds(ev_globals)
       /\ ev_globals' = r.g
       /\ ev_names' = r.names
       /\ ev_ids' = r.ids
       /\ last' = [op |-> "register", outcome |-> r.err, ret |-> r.ret]
       /\ UNCHANGED <<ledger, sink, grant>>

E_unregister(event_name) ==
    LET r == unregister(ev_globals, ev_names, ev_ids, event_name)
    IN /\ ev_globals' = r.g
       /\ ev_names' = r.names
       /\ ev_ids' = r.ids
       /\ last' = [op |-> "unregister", outcome |-> r.err, ret |-> NoRet]
       /\ UNCHANGED <<ledger, sink, grant>>

E_unregister_callable(event_name) ==
    LET r == unregister_callable(ev_globals, ev_names, ev_ids,
                                 ev_globals[event_name])
    IN /\ event_name \in DOMAIN ev_globals
       /\ ev_globals' = r.g
       /\ ev_names' = r.names
       /\ ev_ids' = r.ids
       /\ last' = [op |-> "unregister_callable", outcome |-> r.err,
                   ret |-> NoRet]
       /\ UNCHANGED <<ledger, sink, grant>>

E_emit(event_name, keys) ==
    LET r == events_attr_call(ev_globals, ev_ids, event_name, 0,
                              Kwargs(keys))
    IN /\ Len(sink) + Len(r.log) <= MaxSink
       /\ sink' = sink \o r.log
       /\ last' = [op |-> "emit", outcome |-> r.err, ret |-> NoRet]
       /\ UNCHANGED <<ledger, registry, grant>>

NextEvents ==
    \/ \E n \in EventNames, a \in Schemas, i \in EventIds :
         E_register(n, a, i)
    \/ \E n \in EventNames : E_unregister(n)
    \/ \E n \in EventNames : E_unregister_callable(n)
    \/ \E n \in EventNames, k \in KeySets : E_emit(n, k)

SpecEvents == InitEvents /\ [][NextEvents]_vars

----------------------------------------------------------------------------
(* The token's five operations that are not delegated spends. *)

NextFrame ==
    \/ \E s \in Accounts, t \in Accounts, n \in Amounts : T_transfer(s, t, n)
    \/ \E s \in Accounts, n \in Amounts : T_mint(s, n)
    \/ \E s \in Accounts, n \in Amounts : T_burn(s, n)
    \/ \E s \in Owners, t \in Delegates, n \in Amounts : T_approve(s, t, n)
    \/ \E s \in Owners, t \in Delegates, n \in Deltas :
         T_update_approve(s, t, n)

SpecFrame == Init /\ [][NextFrame]_vars

----------------------------------------------------------------------------
(* What a caller can observe of the two ledgers. *)

SameBalances(b1, b2) ==
    \A a \in Accounts : Balances_get(b1, a) = Balances_get(b2, a)

SameAllowances(a1, a2) ==
    \A a \in Accounts, d \in Accounts :
        Allowances_get_one(a1, a, d) = Allowances_get_one(a2, a, d)

----------------------------------------------------------------------------
(* C1 - Conservation: a transfer or transfer_from call, whether it returns
   or raises, whatever the sender, the recipient (the sender included) and
   the amount, leaves the sum of all balance entries as it was; so does any
   sequence of them. *)
C1_Conservation ==
    [][last'.op \in {"transfer", "transfer_from"}
         => SumBal(balance_of') = SumBal(balance_of)]_vars

(* A delegated transfer moved tokens to "B" before it raised. *)
C1_Witness ==
    /\ last.op = "transfer_from"
    /\ last.outcome = "TypeError"
    /\ Balances_get(balance_of, "B") > 0

(* C2 - Atomicity of delegated spend: in every reachable state, a
   transfer_from(d, A, B, n) that raises, for whatever reason, leaves the
   allowance of d on A as it was, and one that returns leaves it at its
   previous value minus n.  The second conjunct states the same of the
   scoped spend itself for a wrapped call that did not raise: the allowance
   is debited by exactly n. *)
C2_AtomicDelegatedSpend ==
    /\ \A d \in Delegates, f \in Owners, t \in Accounts, n \in Amounts :
         LET r == token_transfer_from(balance_of, allowances, total_supply,
                                      ev_globals, ev_ids, d, f, t, n)
         IN /\ r.err # "ok" =>
                 Allowances_get_one(r.allow, f, d)
                   = Allowances_get_one(allowances, f, d)
            /\ r.err = "ok" =>
                 Allowances_get_one(r.allow, f, d)
                   = Allowances_get_one(allowances, f, d) - n
    /\ \A d \in Delegates, f \in Owners, n \in Amounts :
         LET clean == [before |-> balance_of, bal |-> balance_of,
                       err |-> "ok", ret |-> Ret(1), log |-> NoLog]
             r == Allowances_transaction(allowances, f, d, n, clean)
         IN r.err = "ok" =>
              Allowances_get_one(r.allow, f, d)
                = Allowances_get_one(allowances, f, d) - n

(* A delegated transfer raised inside the wrapped transfer, after the
   allowance check had passed, and the delegate's allowance is still whole. *)
C2_Witness ==
    /\ last.op = "transfer_from"
    /\ last.outcome = "TypeError"
    /\ Allowances_get_one(allowances, "A", "D") = MaxAllow

(* C3 - No partial mutation on failure: whenever one of the seven
   operations raises, every balance and every allowance a caller can look up
   is what it was before the call. *)
C3_NoPartialMutation ==
    [][last'.outcome # "ok"
         => /\ SameBalances(balance_of', balance_of)
            /\ SameAllowances(allowances', allowances)]_vars

(* C4 - Supply consistency: between operations the stored total supply
   equals the sum of all balance entries. *)
C4_SupplyConsistency == total_supply = SumBal(balance_of)

(* C5 - Non-negativity: whatever the arguments, negative amounts and
   negative deltas included, every stored balance and every stored allowance
   is at least 0. *)
C5_NonNegative ==
    /\ \A a \in DOMAIN balance_of : balance_of[a] >= 0
    /\ \A a \in DOMAIN allowances :
         \A d \in DOMAIN allowances[a] : allowances[a][d] >= 0

(* A call with a negative amount has just been refused. *)
C5_Witness ==
    /\ last.op \in {"transfer", "mint", "burn", "approve"}
    /\ last.outcome = "InvalidAmount"

(* C6 - Bounded delegated spending: after approve(A, D, n), and until the
   next approve for (A, D), what D's transfer_from and burn_from calls have
   taken out of A's balance, the calls that raised included, never exceeds
   n. *)
C6_BoundedDelegatedSpending ==
    grant.given >= 0 => grant.spent <= grant.given

(* C7 - approve replaces and persists: in every allowance mapping, the
   empty one included, after approve(A, D, n) with n >= 0 returns, a lookup
   of the allowance of D on A in that mapping gives n. *)
C7_ApproveReplaces ==
    \A a \in Owners, d \in Delegates, n \in 0 .. MaxAmt :
        LET r == approve(allowances, a, d, n)
        IN r.err = "ok" => Allowances_get_one(r.allow, a, d) = n

(* C8 - updateApprove accumulates: in every allowance mapping,
   update_approve(A, D, delta) returns max(0, old + delta), old being the
   allowance of D on A before the call (0 when absent), and a lookup after
   the call gives that same value. *)
C8_UpdateApproveAccumulates ==
    \A a \in Owners, d \in Delegates, delta \in Deltas :
        LET old == Allowances_get_one(allowances, a, d)
            r == update_approve(allowances, a, d, delta)
        IN /\ r.err = "ok"
           /\ r.ret = Ret(Max(0, old + delta))
           /\ Allowances_get_one(r.allow, a, d) = Max(0, old + delta)

(* C9 - Insufficient allowance: from empty allowances, approve(A, D, n)
   followed by transfer_from(D, A, B, m) with m > n raises
   InsufficientAllowance, the allowance of D on A is still n and no balance
   changed; and in any state a transfer_from for more than the delegate's
   allowance raises InsufficientAllowance and changes neither ledger. *)
C9_InsufficientAllowance ==
    /\ allowances = EmptyDict =>
         \A n \in 0 .. MaxAmt, m \in Amounts :
             m > n =>
               LET a1 == approve(allowances, "A", "D", n)
                   r == token_transfer_from(balance_of, a1.allow,
                                            total_supply, ev_globals, ev_ids,
                                            "D", "A", "B", m)
               IN /\ a1.err = "ok"
                  /\ r.err = "InsufficientAllowance"
                  /\ Allowances_get_one(r.allow, "A", "D") = n
                  /\ SameBalances(r.bal, balance_of)
    /\ \A d \in Delegates, f \in Owners, t \in Accounts, n \in Amounts :
         n > Allowances_get_one(allowances, f, d) =>
           LET r == token_transfer_from(balance_of, allowances, total_supply,
                                        ev_globals, ev_ids, d, f, t, n)
           IN /\ r.err = "InsufficientAllowance"
              /\ r.bal = balance_of
              /\ r.allow = allowances

(* C10 - Zero-amount transfer: in every balance mapping, with or without
   an entry for A or for B, transfer(A, B, 0) returns success, leaves the
   balance a caller reads for every account as it was, and emits a transfer
   event whose amount is 0. *)
C10_ZeroTransfer ==
    \A s \in Accounts, t \in Accounts :
        LET r == transfer(balance_of, ev_globals, ev_ids, s, t, 0)
        IN /\ r.err = "ok"
           /\ SameBalances(r.bal, balance_of)
           /\ Len(r.log) = 1
           /\ r.log[1].event = "transfer"
           /\ r.log[1].fields.amount = Num(0)

(* C11 - Totality: every call of one of the seven operations returns or
   raises one of the four declared kinds of error. *)
DeclaredOutcomes ==
    {"ok", "InvalidAmount", "InsufficientFunds", "InsufficientAllowance",
     "SchemaMismatch"}

C11_Totality == last.outcome \in DeclaredOutcomes

(* The direct operations refuse a negative amount n with InvalidAmount and
   touch nothing. *)
NegativeRefusedDirect(n) ==
    /\ \A s \in Accounts, t \in Accounts :
         LET r == token_transfer(balance_of, total_supply, ev_globals,
                                 ev_ids, s, t, n)
         IN r.err = "InvalidAmount" /\ r.bal = balance_of
    /\ \A s \in Accounts :
         LET r == token_mint(balance_of, total_supply, ev_globals, ev_ids,
                             s, n)
         IN /\ r.err = "InvalidAmount"
            /\ r.bal = balance_of /\ r.supply = total_supply
    /\ \A s \in Accounts :
         LET r == token_burn(balance_of, total_supply, ev_globals, ev_ids,
                             s, n)
         IN /\ r.err = "InvalidAmount"
            /\ r.bal = balance_of /\ r.supply = total_supply
    /\ \A s \in Owners, d \in Delegates :
         LET r == approve(allowances, s, d, n)
         IN r.err = "InvalidAmount" /\ r.allow = allowances

(* The delegated operations refuse a negative amount n with the error
   Kind(f, d) and touch nothing. *)
NegativeRefusedDelegated(n, Kind(_, _)) ==
    \A d \in Delegates, f \in Owners :
       /\ \A t \in Accounts :
            LET r == token_transfer_from(balance_of, allowances,
                                         total_supply, ev_globals, ev_ids,
                                         d, f, t, n)
            IN /\ r.err = Kind(f, d)
               /\ r.bal = balance_of /\ r.allow = allowances
       /\ LET r == token_burn_from(balance_of, allowances, total_supply,
                                   ev_globals, ev_ids, d, f, n)
          IN /\ r.err = Kind(f, d)
             /\ r.bal = balance_of /\ r.allow = allowances
             /\ r.supply = total_supply

AlwaysInvalidAmount(f, d) == "InvalidAmount"

AllowanceThenAmount(f, d) ==
    IF Allowances_get_one(allowances, f, d) = 0
    THEN "InsufficientAllowance" ELSE "InvalidAmount"

(* C12 - Negative amounts are rejected: transfer, mint, burn, approve,
   transfer_from and burn_from called with an amount below 0 raise
   InvalidAmount in every state and leave balances, allowances and total
   supply as they were. *)
C12_NegativeRejected ==
    \A n \in Amounts :
        n < 0 => /\ NegativeRefusedDirect(n)
                 /\ NegativeRefusedDelegated(n, AlwaysInvalidAmount)

(* C12 as amended: transfer, mint, burn and approve raise InvalidAmount;
   transfer_from and burn_from raise InsufficientAllowance when the
   delegate's allowance on the account is 0 or absent, and InvalidAmount
   otherwise; in every case balances, allowances and total supply are left
   as they were. *)
C12_NegativeRejectedAmended ==
    \A n \in Amounts :
        n < 0 => /\ NegativeRefusedDirect(n)
                 /\ NegativeRefusedDelegated(n, AllowanceThenAmount)

(* A delegated burn passed the allowance check with a negative amount and
   was refused for the amount. *)
C12_Witness ==
    /\ last.op = "burn_from"
    /\ last.outcome = "InvalidAmount"

(* C13 - Insufficient funds: withdraw, transfer and burn of more than the
   account's balance (0 when it has no entry) raise InsufficientFunds and
   leave every balance entry as it was; for 0 <= n <= balance the balance
   check passes. *)
C13_InsufficientFunds ==
    \A a \in Accounts, n \in Amounts :
        /\ n > Balances_get(balance_of, a) =>
             /\ LET w == Balances_withdraw(balance_of, a, n)
                IN w.err = "InsufficientFunds" /\ w.bal = balance_of
             /\ \A t \in Accounts :
                  LET r == transfer(balance_of, ev_globals, ev_ids, a, t, n)
                  IN r.err = "InsufficientFunds" /\ r.bal = balance_of
             /\ LET r == burn(balance_of, ev_globals, ev_ids, total_supply,
                              a, n)
                IN r.err = "InsufficientFunds" /\ r.bal = balance_of
        /\ (n >= 0 /\ n <= Balances_get(balance_of, a)) =>
             /\ Balances_require(balance_of, a, n) = "ok"
             /\ Balances_withdraw(balance_of, a, n).err # "InsufficientFunds"
             /\ \A t \in Accounts :
                  transfer(balance_of, ev_globals, ev_ids, a, t, n).err
                    # "InsufficientFunds"
             /\ burn(balance_of, ev_globals, ev_ids, total_supply, a, n).err
                  # "InsufficientFunds"

(* A withdraw of more than the balance has just been refused. *)
C13_Witness ==
    /\ last.op = "withdraw"
    /\ last.outcome = "InsufficientFunds"

(* C14 - Withdraw to zero: a withdraw that succeeds and leaves a balance
   of 0 returns 0, the account has no entry afterwards and get reports 0; one
   that leaves a positive balance keeps the entry with the reduced value. *)
C14_WithdrawToZero ==
    \A a \in Accounts, n \in Amounts :
        LET w == Balances_withdraw(balance_of, a, n)
            left == Balances_get(balance_of, a) - n
        IN w.err = "ok" =>
             IF left = 0
             THEN /\ w.ret = Ret(0)
                  /\ a \notin DOMAIN w.bal
                  /\ Balances_get(w.bal, a) = 0
             ELSE /\ left > 0
                  /\ w.ret = Ret(left)
                  /\ a \in DOMAIN w.bal
                  /\ w.bal[a] = left

(* A withdraw returned 0 and no account has an entry any more. *)
C14_Witness ==
    /\ last.op = "withdraw"
    /\ last.outcome = "ok"
    /\ last.ret = Ret(0)
    /\ balance_of = EmptyDict

(* C15 - burnFrom atomicity: a burn_from that succeeds takes n from the
   account's balance and from the delegate's allowance and returns
   supply - n; one that fails leaves that allowance, every balance and the
   total supply as they were. *)
C15_BurnFromAtomicity ==
    \A d \in Delegates, f \in Owners, n \in Amounts :
        LET r == token_burn_from(balance_of, allowances, total_supply,
                                 ev_globals, ev_ids, d, f, n)
        IN /\ r.err = "ok" =>
                /\ Balances_get(r.bal, f) = Balances_get(balance_of, f) - n
                /\ Allowances_get_one(r.allow, f, d)
                     = Allowances_get_one(allowances, f, d) - n
                /\ r.ret = Ret(total_supply - n)
           /\ r.err # "ok" =>
                /\ Allowances_get_one(r.allow, f, d)
                     = Allowances_get_one(allowances, f, d)
                /\ SameBalances(r.bal, balance_of)
                /\ r.supply = total_supply

(* C16 - Zero-allowance policy: a delegate whose allowance on an account
   is 0 or absent is refused with InsufficientAllowance by transfer_from and
   burn_from for every amount, 0 included; a delegate with allowance a > 0
   passes the allowance check exactly for the amounts n <= a. *)
C16_ZeroAllowancePolicy ==
    \A d \in Delegates, f \in Owners, n \in Amounts :
        LET a == Allowances_get_one(allowances, f, d)
            b == token_burn_from(balance_of, allowances, total_supply,
                                 ev_globals, ev_ids, d, f, n)
        IN /\ a = 0 =>
                /\ Allowances_require(allowances, f, d, n)
                     = "InsufficientAllowance"
                /\ b.err = "InsufficientAllowance"
                /\ \A t \in Accounts :
                     token_transfer_from(balance_of, allowances, total_supply,
                                         ev_globals, ev_ids, d, f, t, n).err
                       = "InsufficientAllowance"
           /\ a > 0 =>
                /\ Allowances_require(allowances, f, d, n) = "ok" <=> n <= a
                /\ b.err = "InsufficientAllowance" <=> n > a
                /\ \A t \in Accounts :
                     token_transfer_from(balance_of, allowances, total_supply,
                                         ev_globals, ev_ids, d, f, t, n).err
                       = "InsufficientAllowance" <=> n > a

(* The delegate holds an entry of exactly 0 and its spend has just been
   refused for want of allowance. *)
C16_Witness ==
    /\ "A" \in DOMAIN allowances
    /\ "D" \in DOMAIN allowances["A"]
    /\ allowances["A"]["D"] = 0
    /\ last.op \in {"transfer_from", "burn_from"}
    /\ last.outcome = "InsufficientAllowance"

(* C17 - decrease is unconditionally safe: for every allowance mapping and
   every amount >= 0, decrease raises nothing and returns
   max(0, old - amount), old being 0 when there is no entry. *)
C17_DecreaseSafe ==
    \A a \in Owners, d \in Delegates, n \in 0 .. MaxAmt :
        LET r == Allowances_decrease(allowances, a, d, n)
        IN /\ r.err = "ok"
           /\ r.ret = Ret(Max(0, Allowances_get_one(allowances, a, d) - n))

(* What cleanup leaves behind when the allowance of delegate d on account a
   has gone to 0: no entry for d under a, no entry for a once it has no
   delegate left, and every other entry as it was. *)
CleanedUp(before, after, a, d) ==
    /\ DOMAIN after \subseteq DOMAIN before
    /\ a \in DOMAIN after =>
         /\ d \notin DOMAIN after[a]
         /\ DOMAIN after[a] # {}
    /\ a \notin DOMAIN after =>
         (a \in DOMAIN before => DOMAIN before[a] \subseteq {d})
    /\ \A a2 \in DOMAIN before \ {a} :
         a2 \in DOMAIN after /\ after[a2] = before[a2]
    /\ a \in DOMAIN before =>
         \A d2 \in DOMAIN before[a] \ {d} :
            /\ a \in DOMAIN after
            /\ d2 \in DOMAIN after[a]
            /\ after[a][d2] = before[a][d2]

(* C18 - Allowance cleanup: after a successful decrease (direct, by
   update_approve with a negative delta, or at the commit of a scoped spend)
   that brings the allowance of d on a to 0, d has no entry under a, a has no
   entry once no delegate is left, and the other entries are unchanged. *)
C18_AllowanceCleanup ==
    \A a \in Owners, d \in Delegates, n \in 0 .. MaxAmt :
        LET dec == Allowances_decrease(allowances, a, d, n)
            upd == update_approve(allowances, a, d, 0 - n)
            clean == [before |-> balance_of, bal |-> balance_of,
                      err |-> "ok", ret |-> Ret(1), log |-> NoLog]
            txn == Allowances_transaction(allowances, a, d, n, clean)
        IN /\ (dec.err = "ok" /\ Allowances_get_one(dec.allow, a, d) = 0) =>
                CleanedUp(allowances, dec.allow, a, d)
           /\ (n > 0 /\ upd.err = "ok"
                 /\ Allowances_get_one(upd.allow, a, d) = 0) =>
                CleanedUp(allowances, upd.allow, a, d)
           /\ (txn.err = "ok" /\ Allowances_get_one(txn.allow, a, d) = 0) =>
                CleanedUp(allowances, txn.allow, a, d)

(* A decrease took the last allowance granted on A: A's entry is gone and
   B's is still there. *)
C18_Witness ==
    /\ last.op \in {"decrease", "update_approve"}
    /\ last.outcome = "ok"
    /\ last.ret = Ret(0)
    /\ "A" \notin DOMAIN allowances
    /\ "B" \in DOMAIN allowances

(* C19 - Transfer effect and event payload: transfer(s, t, n) with
   0 <= n <= balance of s succeeds, takes n from s, gives n to t, and emits
   one transfer event carrying sender = s, recipient = t, amount = n. *)
C19_TransferEffect ==
    \A s \in Accounts, n \in 0 .. MaxAmt : \A t \in Accounts \ {s} :
        LET r == token_transfer(balance_of, total_supply, ev_globals,
                                ev_ids, s, t, n)
        IN (s \in DOMAIN balance_of /\ n <= balance_of[s]) =>
             /\ r.err = "ok"
             /\ Balances_get(r.bal, s) = Balances_get(balance_of, s) - n
             /\ Balances_get(r.bal, t) = Balances_get(balance_of, t) + n
             /\ r.log = <<[event |-> "transfer",
                           fields |-> [sender |-> Acct(s),
                                       recipient |-> Acct(t),
                                       amount |-> Num(n)]]>>

(* C20 - Event emission follows success: a transfer or transfer_from whose
   preconditions hold completes and appends exactly one transfer event; an
   operation that fails appends none. *)
C20_EmissionFollowsSuccess ==
    /\ \A s \in Accounts, n \in 0 .. MaxAmt : \A t \in Accounts \ {s} :
         LET r == token_transfer(balance_of, total_supply, ev_globals,
                                 ev_ids, s, t, n)
         IN /\ r.err # "ok" => r.log = NoLog
            /\ r.err = "ok" =>
                 Len(r.log) = 1 /\ r.log[1].event = "transfer"
            /\ (s \in DOMAIN balance_of /\ n <= balance_of[s]) =>
                 r.err = "ok"
    /\ \A d \in Delegates, f \in Owners, n \in 0 .. MaxAmt :
       \A t \in Accounts \ {f} :
         LET r == token_transfer_from(balance_of, allowances, total_supply,
                                      ev_globals, ev_ids, d, f, t, n)
         IN /\ r.err # "ok" => r.log = NoLog
            /\ r.err = "ok" =>
                 Len(r.log) = 1 /\ r.log[1].event = "transfer"
            /\ (/\ f \in DOMAIN balance_of
                /\ n <= balance_of[f]
                /\ Allowances_require(allowances, f, d, n) = "ok") =>
                 r.err = "ok"

(* C21 - Schema check: calling a registered event with a set of field
   names other than the declared one fails with SchemaMismatch and writes
   nothing; calling it with exactly the declared names writes one record. *)
C21_SchemaCheck ==
    \A n \in DOMAIN ev_globals, k \in KeySets :
        LET ev == ev_globals[n]
            r == event_call(ev_ids, ev, 0, Kwargs(k))
            a == events_attr_call(ev_globals, ev_ids, n, 0, Kwargs(k))
        IN is_registered(ev_ids, ev) =>
             /\ a = r
             /\ k # ev.args => r.err = "SchemaMismatch" /\ r.log = NoLog
             /\ k = ev.args =>
                  /\ r.err = "ok"
                  /\ r.log = <<[event |-> n, fields |-> Kwargs(k)]>>

(* One call has written its record and the next one, with other field
   names, has just been refused, the sink still holding that one record. *)
C21_Witness ==
    /\ last.op = "emit"
    /\ last.outcome = "SchemaMismatch"
    /\ Len(sink) = 1

(* C22 - Re-registration replaces atomically: for a name already
   registered, register succeeds, the new event is registered and callable
   under that name with the new schema, the event returned before is no
   longer callable, and every other registered event stays registered and
   callable. *)
C22_ReRegistration ==
    \A n \in ev_names, a \in Schemas :
      \A i \in EventIds \ LiveIds(ev_globals) :
        LET old == ev_globals[n]
            r == register(ev_globals, ev_names, ev_ids, n, a, i)
        IN /\ r.err = "ok"
           /\ r.ret = Ret(i)
           /\ is_registered_name(r.g, r.ids, n)
           /\ r.g[n].args = a
           /\ events_attr_call(r.g, r.ids, n, 0, Kwargs(a)).err = "ok"
           /\ event_call(r.ids, old, 0, Kwargs(old.args)).err # "ok"
           /\ \A m \in DOMAIN ev_globals \ {n} :
                is_registered(ev_ids, ev_globals[m]) =>
                  /\ is_registered_name(r.g, r.ids, m)
                  /\ event_call(r.ids, ev_globals[m], 0,
                                Kwargs(ev_globals[m].args)).err = "ok"

(* What unregister promises for the event bound to n, given the registry it
   leaves behind. *)
Removed(g, names, ids, err, n) ==
    /\ err = "ok"
    /\ ~is_registered_name(g, ids, n)
    /\ n \notin registered_events(names)
    /\ event_call(ids, ev_globals[n], 0, Kwargs(ev_globals[n].args)).err
         # "ok"
    /\ events_attr_call(g, ids, n, 0, Kwargs(ev_globals[n].args)).err # "ok"

(* C23 - unregister removes an event: after unregister of a registered
   event, given by name or as the callable, is_registered is false, the name
   is not in registered_events() and calling the event fails through any
   reference; unregister of a name that is not registered does nothing and
   raises nothing. *)
C23_UnregisterRemoves ==
    /\ \A n \in DOMAIN ev_globals :
         is_registered(ev_ids, ev_globals[n]) =>
           LET u == unregister(ev_globals, ev_names, ev_ids, n)
               c == unregister_callable(ev_globals, ev_names, ev_ids,
                                        ev_globals[n])
           IN /\ Removed(u.g, u.names, u.ids, u.err, n)
              /\ Removed(c.g, c.names, c.ids, c.err, n)
    /\ \A n \in EventNames :
         ~is_registered_name(ev_globals, ev_ids, n) =>
           unregister(ev_globals, ev_names, ev_ids, n)
             = [g |-> ev_globals, names |-> ev_names, ids |-> ev_ids,
                err |-> "ok"]

(* C24 - Non-default missing-means-zero policy: with
   missing_means_zero = False, get_one on an absent (account, delegate)
   returns None without failing, require on it fails with
   InsufficientAllowance, and decrease never deletes an entry. *)
C24_NonDefaultPolicy ==
    \A a \in Owners, d \in Delegates :
        /\ (a \notin DOMAIN allowances \/ d \notin DOMAIN allowances[a]) =>
             LET g == Allowances_get_one_policy(allowances, FALSE, a, d)
             IN /\ g.err = "ok"
                /\ g.ret = Ret(None)
                /\ \A n \in Amounts :
                     Allowances_require_policy(allowances, FALSE, a, d, n)
                       = "InsufficientAllowance"
        /\ \A n \in 0 .. MaxAmt :
             LET r == Allowances_decrease_policy(allowances, FALSE, a, d, n)
             IN \A x \in DOMAIN allowances :
                  /\ x \in DOMAIN r.allow
                  /\ DOMAIN allowances[x] \subseteq DOMAIN r.allow[x]

(* C25 - Registry consistency: the registered names and the registered
   ids stay in one-to-one correspondence: every name is bound to an event
   whose id is registered, and every registered id belongs to the event
   bound to a registered name. *)
C25_RegistryConsistency ==
    /\ \A n \in ev_names :
         n \in DOMAIN ev_globals /\ ev_globals[n].id \in ev_ids
    /\ \A i \in ev_ids :
         \E n \in ev_names :
            n \in DOMAIN ev_globals /\ ev_globals[n].id = i
    /\ \A n \in ev_names, m \in ev_names :
         ev_globals[n].id = ev_globals[m].id => n = m

(* Every balance entry except those of the accounts in named is present or
   absent as before, with the same value. *)
OtherBalancesKept(before, after, named) ==
    \A x \in Accounts \ named :
        /\ x \in DOMAIN before <=> x \in DOMAIN after
        /\ x \in DOMAIN before => after[x] = before[x]

(* Every allowance entry except the one of delegate d under account a is
   as before; a's entry may only disappear when nothing else was under it. *)
OtherAllowancesKept(before, after, a, d) ==
    /\ \A x \in (DOMAIN before \cup DOMAIN after) \ {a} :
         /\ x \in DOMAIN before
         /\ x \in DOMAIN after
         /\ after[x] = before[x]
    /\ a \in DOMAIN before =>
         \A y \in DOMAIN before[a] \ {d} :
            /\ a \in DOMAIN after
            /\ y \in DOMAIN after[a]
            /\ after[a][y] = before[a][y]
    /\ a \in DOMAIN after =>
         \A y \in DOMAIN after[a] \ {d} :
            a \in DOMAIN before /\ y \in DOMAIN before[a]

FrameOfCalls ==
    /\ \A s \in Accounts, n \in Amounts :
         /\ \A t \in Accounts :
              OtherBalancesKept(balance_of,
                  token_transfer(balance_of, total_supply, ev_globals,
                                 ev_ids, s, t, n).bal, {s, t})
         /\ OtherBalancesKept(balance_of,
                token_mint(balance_of, total_supply, ev_globals, ev_ids,
                           s, n).bal, {s})
         /\ OtherBalancesKept(balance_of,
                token_burn(balance_of, total_supply, ev_globals, ev_ids,
                           s, n).bal, {s})
    /\ \A a \in Accounts, d \in Accounts :
         /\ \A n \in Amounts :
              OtherAllowancesKept(allowances,
                  approve(allowances, a, d, n).allow, a, d)
         /\ \A n \in Deltas :
              OtherAllowancesKept(allowances,
                  update_approve(allowances, a, d, n).allow, a, d)

FrameStep ==
    /\ last'.op \in {"transfer", "mint", "burn"} => allowances' = allowances
    /\ last'.op \in {"approve", "update_approve"} =>
         balance_of' = balance_of /\ total_supply' = total_supply

(* C26 - Frame: transfer, mint and burn leave the allowance mapping as it
   was and change no balance entry but those of the named sender and
   recipient; approve and update_approve leave every balance and the total
   supply as they were and change no allowance entry but that of the named
   (account, delegate) pair, apart from dropping the account's emptied
   entry. *)
C26_Frame == [][FrameStep]_vars /\ []FrameOfCalls

(* After a transfer has given B an entry, an update_approve has succeeded on
   an account that has granted allowances to two delegates. *)
C26_Witness ==
    /\ last.op = "update_approve"
    /\ last.outcome = "ok"
    /\ "B" \in DOMAIN balance_of
    /\ "A" \in DOMAIN allowances
    /\ DOMAIN allowances["A"] = {"B", "D"}

====
